---------------------------- MODULE Spec2Model ----------------------------
(***************************************************************************)
(* State-machine model of the two polling React components of the          *)
(* dashboard front end:                                                     *)
(*   StatusPanel.jsx  - container status poller                             *)
(*   WiFiStatus.jsx   - WiFi status poller and network selector             *)
(* Every event-loop task of a component (effect, timer callback, user       *)
(* event handler, continuation of an awaited HTTP request) is one action.   *)
(* HTTP requests in flight are kept per endpoint; the server is a black      *)
(* box, so a request settles, in any order, with any outcome of a small     *)
(* set.  A continuation of a request that was pending at unmount still      *)
(* runs: nothing in the code aborts it, and its setters are modelled as     *)
(* written (the state of an unmounted component is no longer displayed).    *)
(***************************************************************************)
EXTENDS Integers, Sequences, FiniteSets, Bags, TLC

(***************************************************************************)
(* Bounds of the model (not program constants).                            *)
(***************************************************************************)
MaxPanelFetches == 3
MaxInFlight == 2

(***************************************************************************)
(* JavaScript null / undefined.                                            *)
(***************************************************************************)
Null == [isNull |-> TRUE]

(***************************************************************************)
(* Payloads of GET /api/containers/status.  A snapshot maps component      *)
(* names to records holding a container_status; components may be missing. *)
(***************************************************************************)
CS_Running == [running |-> TRUE, status |-> "running"]
CS_Stopped == [running |-> FALSE, status |-> "exited"]
CS_NotFound == [running |-> FALSE, status |-> "not_found"]

Snap1 == [video_processor |-> [container_status |-> CS_Running],
          orchestrator |-> [container_status |-> CS_Stopped]]
Snap2 == [video_processor |-> [container_status |-> CS_NotFound]]
Snap3 == [ros2_sensor |-> [container_status |-> CS_Running]]

Snapshots == {Snap1, Snap2, Snap3}

(***************************************************************************)
(* What axios hands to the code awaiting a GET: either the promise rejects *)
(* (transport failure) or it resolves with response.data = {success,data}. *)
(***************************************************************************)
TransportError == [rejected |-> TRUE]

GetResponses(payloads) ==
    {TransportError}
    \cup {[rejected |-> FALSE, success |-> TRUE, data |-> d] : d \in payloads}
    \cup {[rejected |-> FALSE, success |-> FALSE, data |-> Null]}

Failed(resp) == resp.rejected \/ ~resp.success

VARIABLES
    \* ---- StatusPanel.jsx ----
    pPhase,          \* "created" | "mounted" | "unmounted"
    containersData,  \* useState(null)
    pLoading,        \* useState(true)
    pIntervalOn,     \* the setInterval handle is live
    pPending,        \* ids of container-status requests in flight
    pIssued,         \* number of container-status requests issued so far
    pLog             \* history: requests settled, in settle order

panelVars == <<pPhase, containersData, pLoading, pIntervalOn, pPending, pIssued, pLog>>

(***************************************************************************)
(* StatusPanel.fetchContainerStatus, part before the await: issue the GET. *)
(***************************************************************************)
FetchContainerStatusIssue ==
    /\ pIssued' = pIssued + 1
    /\ pPending' = pPending \cup {pIssued + 1}

\* mutant of FetchContainerStatusData: the new snapshot is merged into the old
FetchContainerStatusData_Merge(prev, resp) ==
    IF resp.rejected THEN Null
    ELSE IF resp.success
         THEN IF prev = Null THEN resp.data ELSE resp.data @@ prev
         ELSE prev

(***************************************************************************)
(* StatusPanel.fetchContainerStatus, part after the await: the value of    *)
(* containersData once the try/catch has run on the settled request.       *)
(***************************************************************************)
FetchContainerStatusData(prev, resp) ==
    IF resp.rejected THEN Null          \* catch: setContainersData(null)
    ELSE IF resp.success THEN resp.data \* setContainersData(response.data.data)
    ELSE prev                           \* success false: no branch taken

PanelInit ==
    /\ pPhase = "created"
    /\ containersData = Null
    /\ pLoading = TRUE
    /\ pIntervalOn = FALSE
    /\ pPending = {}
    /\ pIssued = 0
    /\ pLog = <<>>

(***************************************************************************)
(* useEffect body of StatusPanel: first fetch, then setInterval.           *)
(***************************************************************************)
PanelMount ==
    /\ pPhase = "created"
    /\ pPhase' = "mounted"
    /\ FetchContainerStatusIssue
    /\ pIntervalOn' = TRUE
    /\ UNCHANGED <<containersData, pLoading, pLog>>

(***************************************************************************)
(* The 5000 ms interval fires: fetchContainerStatus is called.             *)
(***************************************************************************)
PanelTick ==
    /\ pIntervalOn
    /\ pIssued < MaxPanelFetches
    /\ FetchContainerStatusIssue
    /\ UNCHANGED <<pPhase, containersData, pLoading, pIntervalOn, pLog>>

(***************************************************************************)
(* useEffect cleanup of StatusPanel: clearInterval.                        *)
(***************************************************************************)
PanelUnmount ==
    /\ pPhase = "mounted"
    /\ pPhase' = "unmounted"
    /\ pIntervalOn' = FALSE
    /\ UNCHANGED <<containersData, pLoading, pPending, pIssued, pLog>>

(***************************************************************************)
(* A container-status request settles and the rest of                      *)
(* fetchContainerStatus runs (try / catch / finally).  The continuation    *)
(* runs whether or not the component is still mounted.                     *)
(***************************************************************************)
PanelSettle(id, resp) ==
    /\ id \in pPending
    /\ pPending' = pPending \ {id}
    /\ containersData' = FetchContainerStatusData(containersData, resp)
    /\ pLoading' = FALSE
    /\ pLog' = Append(pLog, [id |-> id, resp |-> resp, before |-> containersData])
    /\ UNCHANGED <<pPhase, pIntervalOn, pIssued>>

(***************************************************************************)
(* Payloads of the WiFi endpoints.                                         *)
(***************************************************************************)
WifiDisconnected == [connected |-> FALSE]
WifiOnA == [connected |-> TRUE, ssid |-> "A"]
WifiStatuses == {WifiDisconnected, WifiOnA}

NetA == [ssid |-> "A", signal |-> 80, security |-> "WPA2", connected |-> FALSE]
NetAConnected == [ssid |-> "A", signal |-> 80, security |-> "WPA2", connected |-> TRUE]
NetB == [ssid |-> "B", signal |-> 40, security |-> "WPA2", connected |-> FALSE]
ScanLists == {<<>>, <<NetAConnected, NetB>>, <<NetB, NetA>>}

Passwords == {"", "pw1"}

\* POST /api/wifi/connect resolves with {success, message?} or rejects
ConnectResponses ==
    {TransportError,
     [rejected |-> FALSE, success |-> TRUE],
     [rejected |-> FALSE, success |-> FALSE],
     [rejected |-> FALSE, success |-> FALSE, message |-> ""],
     [rejected |-> FALSE, success |-> FALSE, message |-> "bad password"]}

VARIABLES
    \* ---- WiFiStatus.jsx ----
    wPhase,           \* "created" | "mounted" | "unmounted"
    wifiStatus,       \* useState(null)
    networks,         \* useState([])
    initialLoading,   \* useState(true)
    scanning,         \* useState(false)
    showNetworkList,  \* useState(false)
    connecting,       \* useState(false)
    selectedNetwork,  \* useState(null)
    password,         \* useState('')
    wIntervalOn,      \* the setInterval handle is live
    statusPending,    \* bag of GET /wifi/status requests in flight
    scanPending,      \* bag of GET /wifi/networks requests in flight
    connectPending,   \* bag of POST /wifi/connect requests in flight
    alertShown,       \* text passed to window.alert by the last task, or Null
    lastGoodStatus,   \* history: data of the last successful status fetch
    refetchShown,     \* history: [data |-> d] once the refetch of the latest
                      \* successful connect has settled successfully, else Null
    wEvent            \* history: the task that ran last

wifiState == <<wifiStatus, networks, initialLoading, scanning, showNetworkList,
               connecting, selectedNetwork, password>>
wifiNet == <<statusPending, scanPending, connectPending>>
wifiVars == <<wPhase, wifiState, wIntervalOn, wifiNet, alertShown,
              lastGoodStatus, refetchShown, wEvent>>

VARIABLES
    \* ---- one call of a pure rendering helper ----
    rFn,    \* "none" | "status" | "signal": which helper is called
    rArg,   \* the argument of the call
    rOut    \* what the helpers returned (Null until called)

renderVars == <<rFn, rArg, rOut>>

vars == <<panelVars, wifiVars, renderVars>>

Event(op, arg) == [op |-> op, arg |-> arg]

InFlight(bag) == BagCardinality(bag)

(***************************************************************************)
(* Room for one more status request: every connect request in flight may   *)
(* still add one (the refetch of its success branch).                      *)
(***************************************************************************)
HasRoom == InFlight(statusPending) + InFlight(connectPending) < MaxInFlight

(***************************************************************************)
(* A status request in flight.  awaited tells whether connectToNetwork      *)
(* awaits the call (line 63); stale is history: the request was issued     *)
(* before the latest successful connect response was handled.              *)
(***************************************************************************)
StatusRequest(awaited) == [awaited |-> awaited, stale |-> FALSE]

MarkStale(bag) ==
    LET marked == {[r EXCEPT !.stale = TRUE] : r \in BagToSet(bag)}
    IN  [t \in marked |-> CopiesIn(t, bag) + CopiesIn([t EXCEPT !.stale = FALSE], bag)]

(***************************************************************************)
(* WiFiStatus.fetchWiFiStatus, part before the await, called on top of the *)
(* requests in flight.                                                     *)
(***************************************************************************)
FetchWiFiStatusIssueOn(pending, awaited) ==
    statusPending' = pending (+) SetToBag({StatusRequest(awaited)})

FetchWiFiStatusIssue(awaited) == FetchWiFiStatusIssueOn(statusPending, awaited)

\* mutant of FetchWiFiStatusData: a failed fetch clears the status
FetchWiFiStatusData_ClearOnFailure(prev, resp) ==
    IF Failed(resp) THEN Null ELSE resp.data

\* mutant of FetchWiFiStatusData: a status already displayed is kept
FetchWiFiStatusData_FirstWins(prev, resp) ==
    IF Failed(resp) \/ prev /= Null THEN prev ELSE resp.data

(***************************************************************************)
(* WiFiStatus.fetchWiFiStatus, part after the await: the value of          *)
(* wifiStatus once the try/catch has run on the settled request.           *)
(***************************************************************************)
FetchWiFiStatusData(prev, resp) ==
    IF ~resp.rejected /\ resp.success THEN resp.data ELSE prev

(***************************************************************************)
(* The component returns the loading skeleton while initialLoading, and    *)
(* nothing is on screen before mount or after unmount.                     *)
(***************************************************************************)
Rendered == wPhase = "mounted" /\ ~initialLoading

\* mutant of CredentialGuard: the connected flag of the selection is ignored
CredentialGuard_IgnoreConnected(sel) == sel /= Null

(***************************************************************************)
(* Guard of the credential form: selectedNetwork && !selectedNetwork.connected *)
(***************************************************************************)
CredentialGuard(sel) == sel /= Null /\ ~sel.connected

FormShown == Rendered /\ showNetworkList /\ CredentialGuard(selectedNetwork)

\* mutant of ConnectAlertText: the server's message is never used
ConnectAlertText_AlwaysGeneric(resp) ==
    IF resp.rejected THEN "Failed to connect to network" ELSE "Failed to connect"

(***************************************************************************)
(* alert(response.data.message || 'Failed to connect') and the alert of    *)
(* the catch block.  An absent or empty message is falsy.                  *)
(***************************************************************************)
ConnectAlertText(resp) ==
    IF resp.rejected THEN "Failed to connect to network"
    ELSE IF "message" \in DOMAIN resp /\ resp.message /= "" THEN resp.message
    ELSE "Failed to connect"

WifiInit ==
    /\ wPhase = "created"
    /\ wifiStatus = Null
    /\ networks = <<>>
    /\ initialLoading = TRUE
    /\ scanning = FALSE
    /\ showNetworkList = FALSE
    /\ connecting = FALSE
    /\ selectedNetwork = Null
    /\ password = ""
    /\ wIntervalOn = FALSE
    /\ statusPending = EmptyBag
    /\ scanPending = EmptyBag
    /\ connectPending = EmptyBag
    /\ alertShown = Null
    /\ lastGoodStatus = Null
    /\ refetchShown = Null
    /\ wEvent = Event("init", Null)

(***************************************************************************)
(* useEffect body of WiFiStatus: first fetch, then setInterval.            *)
(***************************************************************************)
WifiMount ==
    /\ wPhase = "created"
    /\ wPhase' = "mounted"
    /\ FetchWiFiStatusIssue(FALSE)
    /\ wIntervalOn' = TRUE
    /\ alertShown' = Null
    /\ wEvent' = Event("mount", Null)
    /\ UNCHANGED <<wifiState, scanPending, connectPending, lastGoodStatus, refetchShown>>

\* mutant of WifiTick: a tick is skipped while a status fetch is in flight
WifiTick_SkipWhenBusy ==
    /\ wIntervalOn
    /\ statusPending = EmptyBag
    /\ FetchWiFiStatusIssue(FALSE)
    /\ alertShown' = Null
    /\ wEvent' = Event("tick", Null)
    /\ UNCHANGED <<wPhase, wifiState, wIntervalOn, scanPending, connectPending,
                   lastGoodStatus, refetchShown>>

(***************************************************************************)
(* The 5000 ms interval fires: fetchWiFiStatus is called.                  *)
(***************************************************************************)
WifiTick ==
    /\ wIntervalOn
    /\ HasRoom
    /\ FetchWiFiStatusIssue(FALSE)
    /\ alertShown' = Null
    /\ wEvent' = Event("tick", Null)
    /\ UNCHANGED <<wPhase, wifiState, wIntervalOn, scanPending, connectPending,
                   lastGoodStatus, refetchShown>>

(***************************************************************************)
(* useEffect cleanup of WiFiStatus: clearInterval.                         *)
(***************************************************************************)
WifiUnmount ==
    /\ wPhase = "mounted"
    /\ wPhase' = "unmounted"
    /\ wIntervalOn' = FALSE
    /\ alertShown' = Null
    /\ wEvent' = Event("unmount", Null)
    /\ UNCHANGED <<wifiState, wifiNet, lastGoodStatus, refetchShown>>

(***************************************************************************)
(* A status request settles: the rest of fetchWiFiStatus runs; when the    *)
(* fetch was awaited by connectToNetwork, that function's finally block    *)
(* (setConnecting(false)) runs in the same task.                           *)
(***************************************************************************)
StatusSettle(req, resp) ==
    /\ BagIn(req, statusPending)
    /\ statusPending' = statusPending (-) SetToBag({req})
    /\ wifiStatus' = FetchWiFiStatusData(wifiStatus, resp)
    /\ initialLoading' = FALSE
    /\ connecting' = IF req.awaited THEN FALSE ELSE connecting
    /\ lastGoodStatus' = IF Failed(resp) THEN lastGoodStatus ELSE resp.data
    /\ refetchShown' = IF req.awaited /\ ~req.stale /\ ~Failed(resp)
                       THEN [data |-> resp.data]
                       ELSE refetchShown
    /\ alertShown' = Null
    /\ wEvent' = [op |-> "statusSettle", arg |-> resp, req |-> req]
    /\ UNCHANGED <<wPhase, networks, scanning, showNetworkList, selectedNetwork,
                   password, wIntervalOn, scanPending, connectPending>>

(***************************************************************************)
(* scanNetworks, part before the await.                                    *)
(***************************************************************************)
ScanNetworksStart ==
    /\ scanning' = TRUE
    /\ scanPending' = scanPending (+) SetToBag({[url |-> "/wifi/networks"]})
    /\ alertShown' = Null
    /\ UNCHANGED <<wPhase, wifiStatus, networks, initialLoading, showNetworkList,
                   connecting, selectedNetwork, password, wIntervalOn,
                   statusPending, connectPending, lastGoodStatus, refetchShown>>

(***************************************************************************)
(* "Change WIFI" button: onClick={scanNetworks} disabled={scanning}.       *)
(***************************************************************************)
ChangeWifiClick ==
    /\ Rendered
    /\ ~scanning
    /\ ScanNetworksStart
    /\ wEvent' = Event("changeWifiClick", Null)

(***************************************************************************)
(* Refresh button of the list: onClick={scanNetworks} disabled={scanning}. *)
(***************************************************************************)
RefreshClick ==
    /\ Rendered
    /\ showNetworkList
    /\ ~scanning
    /\ ScanNetworksStart
    /\ wEvent' = Event("refreshClick", Null)

\* mutant of ScanNetworksData: entries already connected are filtered out
ScanNetworksData_DropConnected(prev, resp) ==
    IF ~resp.rejected /\ resp.success
    THEN SelectSeq(resp.data, LAMBDA n : ~n.connected)
    ELSE prev

\* mutant of ScanNetworksData: a failed scan empties the list
ScanNetworksData_ClearOnFailure(prev, resp) ==
    IF ~resp.rejected /\ resp.success THEN resp.data ELSE <<>>

(***************************************************************************)
(* scanNetworks after the await: the value of networks once the try/catch  *)
(* has run (setNetworks(response.data.data) only when success is true).    *)
(***************************************************************************)
ScanNetworksData(prev, resp) ==
    IF ~resp.rejected /\ resp.success THEN resp.data ELSE prev

(***************************************************************************)
(* A scan request settles: the rest of scanNetworks runs.                  *)
(***************************************************************************)
ScanSettle(req, resp) ==
    /\ BagIn(req, scanPending)
    /\ scanPending' = scanPending (-) SetToBag({req})
    /\ networks' = ScanNetworksData(networks, resp)
    /\ showNetworkList' = IF ~resp.rejected /\ resp.success THEN TRUE
                          ELSE showNetworkList
    /\ scanning' = FALSE
    /\ alertShown' = Null
    /\ wEvent' = Event("scanSettle", resp)
    /\ UNCHANGED <<wPhase, wifiStatus, initialLoading, connecting, selectedNetwork,
                   password, wIntervalOn, statusPending, connectPending,
                   lastGoodStatus, refetchShown>>

\* mutant of NetworkClickSelection: a connected entry is not selectable
NetworkClickSelection_SkipConnected(sel, network) ==
    IF network.connected THEN sel ELSE network

(***************************************************************************)
(* onClick of a list entry: setSelectedNetwork(network).                   *)
(***************************************************************************)
NetworkClickSelection(sel, network) == network

NetworkClick(i) ==
    /\ Rendered
    /\ showNetworkList
    /\ i \in 1..Len(networks)
    /\ selectedNetwork' = NetworkClickSelection(selectedNetwork, networks[i])
    /\ alertShown' = Null
    /\ wEvent' = Event("networkClick", networks[i])
    /\ UNCHANGED <<wPhase, wifiStatus, networks, initialLoading, scanning,
                   showNetworkList, connecting, password, wIntervalOn, wifiNet,
                   lastGoodStatus, refetchShown>>

(***************************************************************************)
(* onChange of the password input: setPassword(e.target.value).            *)
(***************************************************************************)
PasswordChange(p) ==
    /\ FormShown
    /\ p /= password
    /\ password' = p
    /\ alertShown' = Null
    /\ wEvent' = Event("passwordChange", Null)
    /\ UNCHANGED <<wPhase, wifiStatus, networks, initialLoading, scanning,
                   showNetworkList, connecting, selectedNetwork, wIntervalOn,
                   wifiNet, lastGoodStatus, refetchShown>>

\* mutant of CancelClick: the typed password survives the cancel
CancelClick_KeepsPassword ==
    /\ FormShown
    /\ selectedNetwork' = Null
    /\ alertShown' = Null
    /\ wEvent' = Event("cancelClick", Null)
    /\ UNCHANGED <<wPhase, wifiStatus, networks, initialLoading, scanning,
                   showNetworkList, connecting, password, wIntervalOn, wifiNet,
                   lastGoodStatus, refetchShown>>

(***************************************************************************)
(* Cancel button: setSelectedNetwork(null); setPassword('').               *)
(***************************************************************************)
CancelClick ==
    /\ FormShown
    /\ selectedNetwork' = Null
    /\ password' = ""
    /\ alertShown' = Null
    /\ wEvent' = Event("cancelClick", Null)
    /\ UNCHANGED <<wPhase, wifiStatus, networks, initialLoading, scanning,
                   showNetworkList, connecting, wIntervalOn, wifiNet,
                   lastGoodStatus, refetchShown>>

(***************************************************************************)
(* connectToNetwork, part before the await.  The request body is           *)
(* {ssid, password}; entry remembers the selection it was built from.      *)
(***************************************************************************)
ConnectToNetworkStart ==
    /\ alertShown' = Null
    /\ IF selectedNetwork = Null
       THEN UNCHANGED <<wPhase, wifiState, wIntervalOn, wifiNet, lastGoodStatus, refetchShown>>
       ELSE /\ connecting' = TRUE
            /\ connectPending' = connectPending (+)
                  SetToBag({[ssid |-> selectedNetwork.ssid, password |-> password,
                             entry |-> selectedNetwork]})
            /\ UNCHANGED <<wPhase, wifiStatus, networks, initialLoading, scanning,
                           showNetworkList, selectedNetwork, password, wIntervalOn,
                           statusPending, scanPending, lastGoodStatus, refetchShown>>

(***************************************************************************)
(* onKeyPress of the password input: e.key === 'Enter' && connectToNetwork() *)
(* There is no check of connecting on this path.                           *)
(***************************************************************************)
EnterKey ==
    /\ FormShown
    /\ HasRoom
    /\ ConnectToNetworkStart
    /\ wEvent' = Event("enterKey", Null)

(***************************************************************************)
(* Connect button: onClick={connectToNetwork} disabled={connecting}.       *)
(***************************************************************************)
ConnectClick ==
    /\ FormShown
    /\ ~connecting
    /\ HasRoom
    /\ ConnectToNetworkStart
    /\ wEvent' = Event("connectClick", Null)

\* mutant of ConnectSucceeded: the success branch forgets the refetch and the list
ConnectSucceeded_NoRefetch ==
    /\ selectedNetwork' = Null
    /\ password' = ""
    /\ connecting' = FALSE
    /\ alertShown' = Null
    /\ refetchShown' = Null
    /\ UNCHANGED <<showNetworkList, statusPending>>

(***************************************************************************)
(* connectToNetwork after the await, response.data.success true: the three *)
(* setters, then fetchWiFiStatus() is called and awaited.                  *)
(***************************************************************************)
ConnectSucceeded ==
    /\ selectedNetwork' = Null
    /\ password' = ""
    /\ showNetworkList' = FALSE
    /\ FetchWiFiStatusIssueOn(MarkStale(statusPending), TRUE)
    /\ alertShown' = Null
    /\ refetchShown' = Null
    /\ UNCHANGED connecting

\* mutant of ConnectFailed: the failure path discards the attempt
ConnectFailed_ClearsAttempt(resp) ==
    /\ alertShown' = ConnectAlertText(resp)
    /\ connecting' = FALSE
    /\ selectedNetwork' = Null
    /\ password' = ""
    /\ UNCHANGED <<showNetworkList, statusPending, refetchShown>>

(***************************************************************************)
(* connectToNetwork after the await, success false (else branch) or        *)
(* rejected request (catch block), followed by the finally block.          *)
(***************************************************************************)
ConnectFailed(resp) ==
    /\ alertShown' = ConnectAlertText(resp)
    /\ connecting' = FALSE
    /\ UNCHANGED <<selectedNetwork, password, showNetworkList, statusPending,
                   refetchShown>>

(***************************************************************************)
(* A connect request settles: the rest of connectToNetwork runs up to its  *)
(* next await (success) or through its finally block (failure).            *)
(***************************************************************************)
ConnectSettle(req, resp) ==
    /\ BagIn(req, connectPending)
    /\ connectPending' = connectPending (-) SetToBag({req})
    /\ wEvent' = [op |-> "connectSettle", arg |-> resp, req |-> req]
    /\ IF ~resp.rejected /\ resp.success
       THEN ConnectSucceeded
       ELSE ConnectFailed(resp)
    /\ UNCHANGED <<wPhase, wifiStatus, networks, initialLoading, scanning,
                   wIntervalOn, scanPending, lastGoodStatus>>

RenderIdle ==
    /\ rFn = "none"
    /\ rArg = Null
    /\ rOut = Null

Init == PanelInit /\ WifiInit /\ RenderIdle

(***************************************************************************)
(* StatusPanel alone: WiFiStatus is left in its initial state.             *)
(***************************************************************************)
PanelNext ==
    \/ PanelMount /\ UNCHANGED <<wifiVars, renderVars>>
    \/ PanelTick /\ UNCHANGED <<wifiVars, renderVars>>
    \/ PanelUnmount /\ UNCHANGED <<wifiVars, renderVars>>
    \/ \E id \in 1..MaxPanelFetches, resp \in GetResponses(Snapshots) :
          PanelSettle(id, resp) /\ UNCHANGED <<wifiVars, renderVars>>

PanelSpec == Init /\ [][PanelNext]_vars

(***************************************************************************)
(* WiFiStatus alone: StatusPanel is left in its initial state.             *)
(***************************************************************************)
Next ==
    \/ WifiMount /\ UNCHANGED <<panelVars, renderVars>>
    \/ WifiTick /\ UNCHANGED <<panelVars, renderVars>>
    \/ WifiUnmount /\ UNCHANGED <<panelVars, renderVars>>
    \/ \E req \in BagToSet(statusPending), resp \in GetResponses(WifiStatuses) :
          StatusSettle(req, resp) /\ UNCHANGED <<panelVars, renderVars>>
    \/ ChangeWifiClick /\ UNCHANGED <<panelVars, renderVars>>
    \/ RefreshClick /\ UNCHANGED <<panelVars, renderVars>>
    \/ \E req \in BagToSet(scanPending), resp \in GetResponses(ScanLists) :
          ScanSettle(req, resp) /\ UNCHANGED <<panelVars, renderVars>>
    \/ \E i \in 1..Len(networks) : NetworkClick(i) /\ UNCHANGED <<panelVars, renderVars>>
    \/ \E p \in Passwords : PasswordChange(p) /\ UNCHANGED <<panelVars, renderVars>>
    \/ CancelClick /\ UNCHANGED <<panelVars, renderVars>>
    \/ EnterKey /\ UNCHANGED <<panelVars, renderVars>>
    \/ ConnectClick /\ UNCHANGED <<panelVars, renderVars>>
    \/ \E req \in BagToSet(connectPending), resp \in ConnectResponses :
          ConnectSettle(req, resp) /\ UNCHANGED <<panelVars, renderVars>>

Spec == Init /\ [][Next]_vars

(***************************************************************************)
(* Arguments the rendering helpers are called with.  A container_status    *)
(* may be absent (optional chaining yields undefined), and either of its   *)
(* fields may be missing.                                                  *)
(***************************************************************************)
StatusTexts == {"running", "exited", "not_found", "created"}

ContainerStatuses ==
    {Null}
    \cup {[running |-> r, status |-> t] : r \in BOOLEAN, t \in StatusTexts}
    \cup {[running |-> r] : r \in BOOLEAN}
    \cup {[status |-> t] : t \in StatusTexts}

MaxSignal == 100
Signals == 0..MaxSignal

\* status.running: a missing field is undefined, hence falsy
IsRunning(status) == "running" \in DOMAIN status /\ status.running

(***************************************************************************)
(* StatusPanel.getStatusColor                                              *)
(***************************************************************************)
GetStatusColor(status) ==
    IF status = Null THEN "#6b7280"
    ELSE IF IsRunning(status) THEN "#10b981"
    ELSE "#ef4444"

\* mutant of GetStatusText: the 'not_found' case is not told apart
GetStatusText_NoNotFound(status) ==
    IF status = Null THEN "Unknown"
    ELSE IF IsRunning(status) THEN "Running"
    ELSE "Stopped"

(***************************************************************************)
(* StatusPanel.getStatusText                                               *)
(***************************************************************************)
GetStatusText(status) ==
    IF status = Null THEN "Unknown"
    ELSE IF IsRunning(status) THEN "Running"
    ELSE IF "status" \in DOMAIN status /\ status.status = "not_found" THEN "Not Found"
    ELSE "Stopped"

FullThreshold == 75
ThreeQuarterThreshold == 50
HalfThreshold == 25

\* mutant of GetSignalIcon: the comparisons are strict
GetSignalIcon_Strict(signal) ==
    IF signal > FullThreshold THEN "bars4"
    ELSE IF signal > ThreeQuarterThreshold THEN "bars3"
    ELSE IF signal > HalfThreshold THEN "bars2"
    ELSE "bars1"

(***************************************************************************)
(* WiFiStatus.getSignalIcon.  The four icons are strings of one to four    *)
(* block characters; "bars1" .. "bars4" name them by their length.         *)
(***************************************************************************)
GetSignalIcon(signal) ==
    IF signal >= FullThreshold THEN "bars4"
    ELSE IF signal >= ThreeQuarterThreshold THEN "bars3"
    ELSE IF signal >= HalfThreshold THEN "bars2"
    ELSE "bars1"

(***************************************************************************)
(* One call of the helpers on one argument: the render of a status row     *)
(* calls getStatusColor and getStatusText, the render of a list entry      *)
(* calls getSignalIcon(network.signal).                                    *)
(***************************************************************************)
RenderInit ==
    /\ PanelInit
    /\ WifiInit
    /\ \/ rFn = "status" /\ rArg \in ContainerStatuses
       \/ rFn = "signal" /\ rArg \in Signals
    /\ rOut = Null

CallGetStatusColor ==
    /\ rFn = "status"
    /\ rOut = Null
    /\ rOut' = [color |-> GetStatusColor(rArg)]
    /\ UNCHANGED <<rFn, rArg>>

CallGetStatusText ==
    /\ rFn = "status"
    /\ rOut /= Null
    /\ "text" \notin DOMAIN rOut
    /\ rOut' = [color |-> rOut.color, text |-> GetStatusText(rArg)]
    /\ UNCHANGED <<rFn, rArg>>

CallGetSignalIcon ==
    /\ rFn = "signal"
    /\ rOut = Null
    /\ rOut' = [icon |-> GetSignalIcon(rArg)]
    /\ UNCHANGED <<rFn, rArg>>

RenderNext ==
    \/ CallGetStatusColor /\ UNCHANGED <<panelVars, wifiVars>>
    \/ CallGetStatusText /\ UNCHANGED <<panelVars, wifiVars>>
    \/ CallGetSignalIcon /\ UNCHANGED <<panelVars, wifiVars>>

RenderSpec == RenderInit /\ [][RenderNext]_vars

(***************************************************************************)
(*                               Properties                                *)
(***************************************************************************)
SettledOk(op) == wEvent'.op = op /\ ~Failed(wEvent'.arg)
SettledFailed(op) == wEvent'.op = op /\ Failed(wEvent'.arg)

(***************************************************************************)
(* C1: once a polling component is unmounted it never issues another       *)
(* status fetch (the number of status requests in flight does not grow,    *)
(* the count of container-status requests issued does not grow).           *)
(***************************************************************************)
C1_NoFetchAfterUnmount ==
    [][/\ wPhase = "unmounted" => InFlight(statusPending') <= InFlight(statusPending)
       /\ pPhase = "unmounted" => pIssued' = pIssued]_vars

(***************************************************************************)
(* C2: the task that handles a successful connect response leaves          *)
(* selectedNetwork null, password empty and the list hidden, and issues    *)
(* exactly one status request, whatever the state of the interval timer.   *)
(***************************************************************************)
C2_ConnectSuccess ==
    [][SettledOk("connectSettle") =>
        /\ selectedNetwork' = Null
        /\ password' = ""
        /\ showNetworkList' = FALSE
        /\ InFlight(statusPending') = InFlight(statusPending) + 1
        /\ MarkStale(statusPending) \sqsubseteq statusPending'
        /\ wIntervalOn' = wIntervalOn]_vars

C2_Witness ==
    /\ wEvent.op = "connectSettle"
    /\ ~Failed(wEvent.arg)
    /\ wPhase = "mounted"
    /\ statusPending = SetToBag({StatusRequest(TRUE)})
    /\ selectedNetwork = Null /\ password = "" /\ ~showNetworkList

C4_AlertOnlyOnConnectFailure ==
    [][IF SettledFailed("connectSettle")
       THEN LET resp == wEvent'.arg
                text == IF resp.rejected THEN "Failed to connect to network"
                        ELSE IF "message" \in DOMAIN resp /\ resp.message /= ""
                             THEN resp.message
                             ELSE "Failed to connect"
            IN  alertShown' = text
       ELSE alertShown' = Null]_vars

C4_Witness ==
    /\ wEvent.op = "connectSettle"
    /\ Failed(wEvent.arg)
    /\ alertShown = "bad password"

(***************************************************************************)
(* C5: whenever the container-status request settled last has failed       *)
(* (rejected, or success false), containersData is null.                   *)
(***************************************************************************)
C5_FailureClearsSnapshot ==
    (pLog /= <<>> /\ Failed(pLog[Len(pLog)].resp)) => containersData = Null

(***************************************************************************)
(* C6: the task that handles a failed WiFi status fetch leaves wifiStatus  *)
(* unchanged, equal to the data of the last successful status fetch (null  *)
(* when there was none).                                                   *)
(***************************************************************************)
C6_FailureRetainsStatus ==
    [][SettledFailed("statusSettle") =>
        /\ wifiStatus' = wifiStatus
        /\ wifiStatus' = lastGoodStatus']_vars

C6_Witness ==
    /\ wEvent.op = "statusSettle"
    /\ Failed(wEvent.arg)
    /\ wifiStatus = WifiOnA
    /\ lastGoodStatus = WifiOnA

(***************************************************************************)
(* C7: containersData is always null or exactly one response's payload,    *)
(* and right after a successful response has settled it is that response's *)
(* payload, whichever request was issued first.                            *)
(***************************************************************************)
C7_LastSettledWins ==
    /\ containersData \in Snapshots \cup {Null}
    /\ (pLog /= <<>> /\ ~Failed(pLog[Len(pLog)].resp))
          => containersData = pLog[Len(pLog)].resp.data

C7_Witness ==
    /\ Len(pLog) >= 2
    /\ \E i \in 1..(Len(pLog) - 1) :
          LET early == pLog[i]
              late == pLog[Len(pLog)]
          IN  /\ ~Failed(early.resp) /\ ~Failed(late.resp)
              /\ late.id < early.id
              /\ early.resp.data /= late.resp.data
              /\ containersData = late.resp.data

(***************************************************************************)
(* C8: at most one scan request and at most one connect request is in      *)
(* flight at any time.                                                     *)
(***************************************************************************)
C8_AtMostOneInFlight ==
    /\ InFlight(scanPending) <= 1
    /\ InFlight(connectPending) <= 1

(***************************************************************************)
(* C9: the credential form is shown only while the held selection has      *)
(* connected false, clicking an entry with connected true leaves the form  *)
(* hidden, and no connect request in flight was built from a selection     *)
(* with connected true.                                                    *)
(***************************************************************************)
C9_NoCredentialsForConnected ==
    /\ FormShown => (selectedNetwork /= Null /\ selectedNetwork.connected = FALSE)
    /\ (wEvent.op = "networkClick" /\ wEvent.arg.connected) => ~FormShown
    /\ \A r \in BagToSet(connectPending) : r.entry.connected = FALSE

C9_Witness ==
    /\ wEvent.op = "networkClick"
    /\ wEvent.arg.connected
    /\ Rendered
    /\ showNetworkList
    /\ selectedNetwork = wEvent.arg
    /\ ~FormShown

(***************************************************************************)
(* C10 as stated: clicking the entry with connected true changes nothing   *)
(* of the selector state.                                                  *)
(***************************************************************************)
C10_ConnectedClickInert ==
    [][(wEvent'.op = "networkClick" /\ wEvent'.arg.connected) =>
        UNCHANGED wifiState]_vars

(***************************************************************************)
(* C10 amended: clicking the entry with connected true makes it the held   *)
(* selection, leaves the credential form hidden and changes nothing else   *)
(* (the password that was typed stays).                                    *)
(***************************************************************************)
C10_ConnectedClickSelects ==
    [][(wEvent'.op = "networkClick" /\ wEvent'.arg.connected) =>
        /\ selectedNetwork' = wEvent'.arg
        /\ ~FormShown'
        /\ UNCHANGED <<wifiStatus, networks, initialLoading, scanning,
                       showNetworkList, connecting, password>>
        /\ UNCHANGED wifiNet]_vars

C10_Witness ==
    /\ wEvent.op = "networkClick"
    /\ wEvent.arg.connected
    /\ selectedNetwork = wEvent.arg
    /\ password /= ""
    /\ Rendered /\ showNetworkList

(***************************************************************************)
(* C11: the Cancel click leaves selectedNetwork null and password empty,   *)
(* keeps the list shown with the same entries, changes no other state and  *)
(* issues no request.                                                      *)
(***************************************************************************)
C11_CancelDiscardsAttempt ==
    [][wEvent'.op = "cancelClick" =>
        /\ selectedNetwork' = Null
        /\ password' = ""
        /\ showNetworkList' = TRUE
        /\ networks' = networks
        /\ UNCHANGED <<wifiStatus, initialLoading, scanning, connecting>>
        /\ UNCHANGED wifiNet
        /\ alertShown' = Null]_vars

C11_Witness ==
    /\ wEvent.op = "cancelClick"
    /\ selectedNetwork = Null
    /\ password = ""
    /\ showNetworkList
    /\ Len(networks) = 2
    /\ connecting

(***************************************************************************)
(* C12: the task that handles a successful scan response shows the list    *)
(* and makes networks exactly the sequence of the response, in its order.  *)
(***************************************************************************)
C12_ScanReplacesList ==
    [][SettledOk("scanSettle") =>
        /\ showNetworkList' = TRUE
        /\ networks' = wEvent'.arg.data]_vars

C12_Witness ==
    /\ wEvent.op = "scanSettle"
    /\ ~Failed(wEvent.arg)
    /\ wEvent.arg.data = <<NetAConnected, NetB>>
    /\ networks = <<NetAConnected, NetB>>
    /\ showNetworkList
    /\ selectedNetwork = NetA

C14_PollCadence ==
    /\ [](wPhase = "mounted" => (wIntervalOn /\ (HasRoom => ENABLED WifiTick)))
    /\ [][wEvent'.op \in {"mount", "tick"} =>
            /\ InFlight(statusPending') = InFlight(statusPending) + 1
            /\ statusPending \sqsubseteq statusPending']_vars
    /\ [][wEvent'.op = "statusSettle" =>
            /\ InFlight(statusPending') = InFlight(statusPending) - 1
            /\ wIntervalOn' = wIntervalOn]_vars

C14_Witness ==
    /\ wEvent.op = "tick"
    /\ wPhase = "mounted"
    /\ wifiStatus = Null
    /\ ~initialLoading
    /\ InFlight(statusPending) = 2

(***************************************************************************)
(* The same cadence for StatusPanel (checked under PanelSpec): the         *)
(* interval is live while mounted, a tick can always run, every fetch      *)
(* issued is one request, and a settling request issues none.              *)
(***************************************************************************)
PanelPollCadence ==
    /\ [](pPhase = "mounted" =>
            (pIntervalOn /\ (pIssued < MaxPanelFetches => ENABLED PanelTick)))
    /\ [][pIssued' = pIssued \/ pIssued' = pIssued + 1]_vars
    /\ [][pLog' /= pLog => (pIssued' = pIssued /\ pIntervalOn' = pIntervalOn)]_vars

(***************************************************************************)
(* C15: for every container status record the colour and the text are:     *)
(* absent -> gray (#6b7280), "Unknown"; running true -> green (#10b981),   *)
(* "Running"; running false and status 'not_found' -> red (#ef4444),       *)
(* "Not Found"; running false and any other status -> red, "Stopped".      *)
(***************************************************************************)
C15_StatusRendering ==
    (rFn = "status" /\ rOut /= Null) =>
       LET absent == rArg = Null
           running == ~absent /\ "running" \in DOMAIN rArg /\ rArg.running = TRUE
           stopped == ~absent /\ "running" \in DOMAIN rArg /\ rArg.running = FALSE
           notFound == "status" \in DOMAIN rArg /\ rArg.status = "not_found"
       IN  /\ absent => rOut.color = "#6b7280"
           /\ running => rOut.color = "#10b981"
           /\ stopped => rOut.color = "#ef4444"
           /\ "text" \in DOMAIN rOut =>
                /\ absent => rOut.text = "Unknown"
                /\ running => rOut.text = "Running"
                /\ (stopped /\ notFound) => rOut.text = "Not Found"
                /\ (stopped /\ ~notFound) => rOut.text = "Stopped"

C15_Witness ==
    /\ rFn = "status"
    /\ rArg = [running |-> FALSE, status |-> "not_found"]
    /\ rOut = [color |-> "#ef4444", text |-> "Not Found"]

(***************************************************************************)
(* C16: for every integer signal from 0 to MaxSignal, getSignalIcon        *)
(* returns the four-bar icon for 75 and above, the three-bar icon for 50   *)
(* to 74, the two-bar icon for 25 to 49 and the one-bar icon for 24 and    *)
(* below; every value is in exactly one bucket.                            *)
(***************************************************************************)
C16_SignalBuckets ==
    (rFn = "signal" /\ rOut /= Null) =>
       LET full == rArg >= 75
           threeQuarter == 50 <= rArg /\ rArg <= 74
           half == 25 <= rArg /\ rArg <= 49
           minimal == rArg <= 24
       IN  /\ full => rOut.icon = "bars4"
           /\ threeQuarter => rOut.icon = "bars3"
           /\ half => rOut.icon = "bars2"
           /\ minimal => rOut.icon = "bars1"
           /\ Cardinality({k \in 1..4 :
                 <<full, threeQuarter, half, minimal>>[k]}) = 1

C16_Witness ==
    /\ rFn = "signal"
    /\ rArg = 74
    /\ rOut = [icon |-> "bars3"]

(***************************************************************************)
(* C17 as stated: in every reachable state, connecting true implies that   *)
(* selectedNetwork is non-null.                                            *)
(***************************************************************************)
C17_ConnectingImpliesSelection ==
    connecting => selectedNetwork /= Null

(***************************************************************************)
(* C18 as stated: the success of a connect request issued for one entry    *)
(* leaves alone a selection of another entry, and the password typed for   *)
(* it, that the user made while the request was in flight.                 *)
(***************************************************************************)
C18_ResponseTouchesOwnAttemptOnly ==
    [][(/\ SettledOk("connectSettle")
        /\ selectedNetwork /= Null
        /\ selectedNetwork /= wEvent'.req.entry)
       => UNCHANGED <<selectedNetwork, password>>]_vars

(***************************************************************************)
(* C19 as stated: whenever the credential form is shown, selectedNetwork   *)
(* is an entry of networks, with the same ssid and the same connected      *)
(* flag.                                                                   *)
(***************************************************************************)
C19_SelectionInDisplayedList ==
    FormShown => \E i \in 1..Len(networks) : networks[i] = selectedNetwork

(***************************************************************************)
(* C20 as stated: the refetch of a successful connect, settling            *)
(* successfully, sets the displayed status to its data, and once it has    *)
(* done so the successful response to a periodic fetch issued before the   *)
(* connect succeeded does not change the displayed status.                 *)
(***************************************************************************)
C20_RefetchNotReplacedByStale ==
    [][/\ (SettledOk("statusSettle") /\ wEvent'.req.awaited /\ ~wEvent'.req.stale)
            => wifiStatus' = wEvent'.arg.data
       /\ (/\ SettledOk("statusSettle")
           /\ ~wEvent'.req.awaited /\ wEvent'.req.stale
           /\ refetchShown /= Null)
            => wifiStatus' = wifiStatus]_vars

(***************************************************************************)
(* C20 amended: the refetch of a successful connect, settling              *)
(* successfully, sets the displayed status to its data; a periodic fetch   *)
(* issued before the connect succeeded that settles successfully after     *)
(* that replaces the displayed status with its own data (the response      *)
(* handled last wins).                                                     *)
(***************************************************************************)
C20_StaleResponseReplacesRefetch ==
    [][/\ (SettledOk("statusSettle") /\ wEvent'.req.awaited /\ ~wEvent'.req.stale)
            => /\ wifiStatus' = wEvent'.arg.data
               /\ refetchShown' = [data |-> wifiStatus']
       /\ (/\ SettledOk("statusSettle")
           /\ ~wEvent'.req.awaited /\ wEvent'.req.stale
           /\ refetchShown /= Null)
            => /\ wifiStatus' = wEvent'.arg.data
               /\ refetchShown' = refetchShown]_vars

C20_Witness ==
    /\ wEvent.op = "statusSettle"
    /\ ~Failed(wEvent.arg)
    /\ ~wEvent.req.awaited /\ wEvent.req.stale
    /\ refetchShown /= Null
    /\ refetchShown.data = WifiOnA
    /\ wifiStatus = WifiDisconnected


(***************************************************************************)
(* C21 as stated, the part a finite run refutes: while scanning is false   *)
(* no scan request is in flight, and while connecting is false no connect  *)
(* request is in flight.                                                   *)
(***************************************************************************)
C21_FlagFalseMeansNoneInFlight ==
    /\ ~scanning => InFlight(scanPending) = 0
    /\ ~connecting => InFlight(connectPending) = 0

=============================================================================
